---- MODULE Spec2Model ----
(***************************************************************************)
(* Model of main_duck.py: the Strava -> CSV -> DuckDB pipeline.            *)
(*                                                                         *)
(* One run of main() is parse_args, get_access_token, fetch_activities     *)
(* (one step per page request), select_columns, to_csv, setup_duckdb and   *)
(* upsert_duckdb_activities (one step per CSV file of the glob).  The      *)
(* working directory and the warehouse outlive a run, so several runs are  *)
(* modelled one after the other.                                           *)
(*                                                                         *)
(* The Strava server is the environment: per run it holds a list of        *)
(* activity records and answers each request with a status and a page.     *)
(***************************************************************************)
EXTENDS Integers, Sequences, FiniteSets, TLC

VARIABLES
    pc,             \* position of the run inside main()
    runs,           \* number of runs of main() started so far
    args_year,      \* args.year: <<>> is None, <<y>> is the integer y
    year,           \* the year parameter of fetch_activities, same encoding
    now,            \* the clock read by fetch_activities (unix seconds)
    source,         \* the server: [kind, records] for the current run
    access_token,   \* <<>> before the exchange, <<token>> after
    after, before,  \* the window sent with every page request
    page,           \* page counter of the pagination loop
    all_activities, \* accumulator of the pagination loop
    df_clean,       \* result of select_columns
    files,          \* working directory: file name -> file content
    db,             \* warehouse: [database, table, view, rows]
    pending,        \* CSV files the glob of the loader has still to yield
    posts,          \* this run: statuses answered to the token POST
    requests,       \* this run: page requests sent, with their answers
    steps,          \* this run: steps of main() entered, in order
    written,        \* this run: names of the CSV files written
    sql,            \* this run: SQL statements executed
    at_start,       \* this run: directory and warehouse as the run found them
    raised          \* this run: the exception that ended it, "" when none

vars == <<pc, runs, args_year, year, now, source, access_token, after, before,
          page, all_activities, df_clean, files, db, pending, posts, requests,
          steps, written, sql, at_start, raised>>

\* ------------------------------------------------------------------ bounds

\* Runs of main() modelled one after the other.
MaxRuns == 2
\* Largest total record count served in the pagination specification.
MaxTotal == 401
\* Page requests after which an endless source is no longer followed.
MaxPages == 3

\* ------------------------------------------------------- program constants

HTTP_STATUS_OK == 200
per_page == 200

strava_columns_used ==
    <<"id", "name", "start_date_local", "type", "distance", "moving_time">>

\* ------------------------------------------------------------------ helpers

None == <<>>
Some(v) == <<v>>
Range(s) == {s[i] : i \in 1..Len(s)}
Min(a, b) == IF a < b THEN a ELSE b

Digit(d) == <<"0", "1", "2", "3", "4", "5", "6", "7", "8", "9">>[d + 1]

RECURSIVE NatStr(_)
NatStr(n) == IF n < 10 THEN Digit(n) ELSE NatStr(n \div 10) \o Digit(n % 10)

\* str(int), as the f-string of the file name formats args.year
IntStr(n) == IF n < 0 THEN "-" \o NatStr(0 - n) ELSE NatStr(n)

\* f"activities_{args.year}.csv"
YearFileName(y) == "activities_" \o IntStr(y) \o ".csv"
Last7FileName == "activities_last_7_days.csv"

\* Path().glob("*.csv"): the names of the directory that end in ".csv"
IsCsvName(n) == Len(n) >= 4 /\ SubSeq(n, Len(n) - 3, Len(n)) = ".csv"
Glob(dir) == {n \in DOMAIN dir : IsCsvName(n)}

\* Leap days of the proleptic Gregorian calendar before 1 January of year y.
LeapsBefore(y) == ((y - 1) \div 4) - ((y - 1) \div 100) + ((y - 1) \div 400)
DaysFromEpoch(y) == 365 * (y - 1970) + LeapsBefore(y) - LeapsBefore(1970)

\* datetime.datetime(y, 1, 1) raises ValueError outside MINYEAR..MAXYEAR
ValidDatetimeYear(y) == 1 <= y /\ y <= 9999

\* year_to_unix_range: defined when both datetimes can be built
YearRangeDefined(y) == ValidDatetimeYear(y) /\ ValidDatetimeYear(y + 1)
year_to_unix_range(y) ==
    <<86400 * DaysFromEpoch(y), 86400 * DaysFromEpoch(y + 1)>>

\* now - timedelta(days=7), now: both as int(timestamp())
Last7Range(t) == <<t - 7 * 86400, t>>

\* ------------------------------------------------------------ the server

\* One activity as the API returns it: the six retained fields and one more.
Activity(id, name, start, type, distance, moving_time) ==
    [id |-> id, name |-> name, start_date_local |-> start, type |-> type,
     distance |-> distance, moving_time |-> moving_time, kudos_count |-> 0]

A1old == Activity(1, "Old", "2025-01-05T07:00:00Z", "Run", 5000, 1800)
A1new == Activity(1, "New", "2025-01-05T07:30:00Z", "Workout", 5100, 1900)
A2 == Activity(2, "Evening Ride", "2025-01-06T18:00:00Z", "Ride", 10000, 2400)
A3 == Activity(3, "Morning Run with Alex", "2025-01-07T06:00:00Z", "Workout",
               5000, 1800)

\* The i-th activity of a long listing.
BulkActivity(i) == Activity(i, "Ride", "2025-01-01T00:00:00Z", "Ride", 1000, 600)

Finite(recs) == [kind |-> "finite", records |-> recs]
Endless == [kind |-> "endless", records |-> <<>>]

\* What the window of one run holds on the server.
Sources == {Finite(<<>>), Finite(<<A1old>>), Finite(<<A1new, A3>>),
            Finite(<<A2>>)}

\* Listings long enough to fill pages.
BulkSources == {Finite([i \in 1..t |-> BulkActivity(i)]) : t \in 0..MaxTotal}
                   \cup {Endless}

\* response.json() of GET .../athlete/activities?page=p&per_page=n
ServerPage(src, p, n) ==
    IF src.kind = "endless"
    THEN [i \in 1..n |-> BulkActivity((p - 1) * n + i)]
    ELSE SubSeq(src.records, (p - 1) * n + 1, Min(p * n, Len(src.records)))

TokenStatuses == {200, 401}
PageStatuses == {200, 429}

\* a check that raises for 5xx alone
RaisesForServerError(status) == 500 <= status /\ status < 600

\* response.raise_for_status(): raises for 4xx and 5xx
RaisesForStatus(status) == 400 <= status /\ status < 600

\* datetime.datetime.now(datetime.UTC), as unix seconds
Clock == {1761766000}

\* --------------------------------------------------- data frames and CSV

\* pd.DataFrame(list of dicts): the columns are the keys of the records
DataFrame(recs) ==
    [columns |-> UNION {DOMAIN recs[i] : i \in 1..Len(recs)}, rows |-> recs]

IsUsedAndPresent(df, c) == c \in df.columns

select_columns(df) ==
    LET cols == SelectSeq(strava_columns_used,
                          LAMBDA c : IsUsedAndPresent(df, c))
    IN  [columns |-> cols,
         rows |-> [i \in 1..Len(df.rows) |->
                      [c \in Range(cols) |-> df.rows[i][c]]]]

\* df.to_csv(name, index=False): a header line, then one line per row
to_csv(df) ==
    [header |-> df.columns,
     lines |-> [i \in 1..Len(df.rows) |->
                   [j \in 1..Len(df.columns) |-> df.rows[i][df.columns[j]]]]]

\* select * from read_csv_auto(file): the staging relation
read_csv_auto(content) == [columns |-> content.header, rows |-> content.lines]

\* --------------------------------------------------------- the warehouse

\* columns of activities_raw, in the order of the create table statement
TableColumns ==
    <<"id", "name", "start_date_local", "type", "distance", "moving_time">>

IndexOf(seq, x) == CHOOSE i \in 1..Len(seq) : seq[i] = x

\* a staging row as a row of activities_raw (columns taken by position)
AsTableRow(line) ==
    [c \in Range(TableColumns) |-> line[IndexOf(TableColumns, c)]]

\* the merge binds upserts.id and needs one value per column of the table
MergeBinds(staging) ==
    /\ "id" \in Range(staging.columns)
    /\ Len(staging.columns) = Len(TableColumns)

\* upserts.id of a staging row
UpsertId(staging, line) == line[IndexOf(staging.columns, "id")]

Ids(rows) == {r.id : r \in rows}

\* when matched then update: the rows of the table the merge replaces
Matched(rows, staging) ==
    {r \in rows : \E i \in 1..Len(staging.rows) :
                      UpsertId(staging, staging.rows[i]) = r.id}

\* rows the merge writes: updated and inserted ones alike carry every column
Upserted(staging) == {AsTableRow(staging.rows[i]) : i \in 1..Len(staging.rows)}

\* id bigint primary key: two rows written with one id violate the constraint
KeepsPrimaryKey(rows, staging) ==
    /\ \A i, j \in 1..Len(staging.rows) :
          i # j => AsTableRow(staging.rows[i]).id # AsTableRow(staging.rows[j]).id
    /\ \A r \in rows \ Matched(rows, staging) : r.id \notin Ids(Upserted(staging))

MergeSucceeds(rows, staging) ==
    MergeBinds(staging) /\ KeepsPrimaryKey(rows, staging)

\* a merge that inserts the unmatched rows and leaves the matched ones alone
MergeIntoInsertOnly(rows, staging) ==
    IF MergeSucceeds(rows, staging)
    THEN rows \cup {r \in Upserted(staging) : r.id \notin Ids(rows)}
    ELSE rows

\* a merge that deletes the matched rows instead of updating them
MergeIntoDeleteMatched(rows, staging) ==
    IF MergeSucceeds(rows, staging)
    THEN (rows \ Matched(rows, staging))
             \cup {r \in Upserted(staging) : r.id \notin Ids(rows)}
    ELSE rows

\* a merge that writes the staging rows beside the rows they match
MergeIntoKeepingMatched(rows, staging) ==
    IF MergeSucceeds(rows, staging)
    THEN rows \cup Upserted(staging)
    ELSE rows

\* merge into activities_raw using staging on id
\*   when matched then update when not matched then insert
MergeInto(rows, staging) ==
    IF MergeSucceeds(rows, staging)
    THEN (rows \ Matched(rows, staging)) \cup Upserted(staging)
    ELSE rows

FreshWarehouse == [database |-> FALSE, table |-> FALSE, view |-> FALSE, rows |-> {}]

SetupStatements ==
    <<"create database if not exists strava", "use strava",
      "create table if not exists activities_raw",
      "create or replace view activities">>

\* How setup_duckdb can go: 0 is a connect that raises, k in 1..4 is
\* statement k raising, 5 is no failure.
SetupOutcomes == 0..(Len(SetupStatements) + 1)
SetupFails(failing) == failing <= Len(SetupStatements)

\* statements of setup_duckdb sent, and those among them that took effect
SetupSent(failing) == IF failing > Len(SetupStatements)
                      THEN Len(SetupStatements) ELSE failing
SetupDone(failing) == IF SetupFails(failing) /\ failing > 0
                      THEN failing - 1 ELSE SetupSent(failing)

\* setup_duckdb after its first `done` statements: nothing that exists is
\* dropped, the view is replaced
SetupWarehouse(d, done) ==
    [database |-> d.database \/ done >= 1,
     table |-> d.table \/ done >= 3,
     view |-> d.view \/ done >= 4,
     rows |-> d.rows]

\* --------------------------------------------------------- initial states

NoFiles == [n \in {} |-> [header |-> <<>>, lines |-> <<>>]]

\* a CSV file as an earlier run writes it
CsvOf(recs) == to_csv(select_columns(DataFrame(recs)))

\* What the working directory holds before the first run.
InitialDirs ==
    {NoFiles,
     "notes.txt" :> CsvOf(<<A2>>),
     "export.csv" :> CsvOf(<<A1old, A2>>),
     "export.csv" :> CsvOf(<<A1old, A1new>>)}

\* Values of the --year flag: absent, or an integer.
YearArgs == {None, Some(0), Some(2025), Some(10000)}

RunReset ==
    /\ access_token' = None
    /\ after' = 0 /\ before' = 0
    /\ page' = 0
    /\ all_activities' = <<>>
    /\ df_clean' = [columns |-> <<>>, rows |-> <<>>]
    /\ pending' = {}
    /\ posts' = <<>>
    /\ requests' = <<>>
    /\ steps' = <<>>
    /\ written' = <<>>
    /\ sql' = <<>>
    /\ raised' = ""

Init ==
    /\ pc = "idle"
    /\ runs = 0
    /\ args_year = None
    /\ year = None
    /\ now = 0
    /\ source = Finite(<<>>)
    /\ access_token = None
    /\ after = 0 /\ before = 0
    /\ page = 0
    /\ all_activities = <<>>
    /\ df_clean = [columns |-> <<>>, rows |-> <<>>]
    /\ files \in InitialDirs
    /\ db = FreshWarehouse
    /\ pending = {}
    /\ posts = <<>>
    /\ requests = <<>>
    /\ steps = <<>>
    /\ written = <<>>
    /\ sql = <<>>
    /\ at_start = [files |-> files, db |-> db]
    /\ raised = ""

\* ------------------------------------------------------------- main()

Ended == pc \in {"done", "aborted"}

\* `if args.year:` a year of None or 0 is falsy
Truthy(a) == a # None /\ a[1] # 0

\* the year main() hands to fetch_activities
FetchYear(a) == IF Truthy(a) THEN a ELSE None

\* the name main() hands to to_csv
CsvName(a) == IF Truthy(a) THEN YearFileName(a[1]) ELSE Last7FileName

\* args = parse_args(), at the start of a run; the server's content is fixed
ParseArgs(a, src) ==
    /\ pc = "idle" \/ Ended
    /\ runs < MaxRuns
    /\ runs' = runs + 1
    /\ args_year' = a
    /\ year' = FetchYear(a)
    /\ source' = src
    /\ pc' = "get_access_token"
    /\ at_start' = [files |-> files, db |-> db]
    /\ RunReset
    /\ UNCHANGED <<now, files, db>>

\* a check that lets client errors through
TokenRejectedOnServerError(status) == status >= 500

\* if response.status_code != HTTP_STATUS_OK: ... raise RuntimeError
TokenRejected(status) == status # HTTP_STATUS_OK

\* get_access_token(): one POST; any status but 200 raises RuntimeError
GetAccessToken(status) ==
    /\ pc = "get_access_token"
    /\ steps' = Append(steps, "get_access_token")
    /\ posts' = Append(posts, status)
    /\ IF TokenRejected(status)
       THEN pc' = "aborted" /\ UNCHANGED access_token
       ELSE pc' = "fetch_activities" /\ access_token' = Some("access_token")
    /\ raised' = IF pc' = "aborted" THEN "RuntimeError" ELSE raised
    /\ UNCHANGED <<at_start, runs, args_year, year, now, source, after, before, page,
                   all_activities, df_clean, files, db, pending, requests,
                   written, sql>>

\* fetch_activities up to the loop: the window, the accumulator and the page
FetchStart(t) ==
    /\ pc = "fetch_activities"
    /\ steps' = Append(steps, "fetch_activities")
    /\ IF year # None
       THEN /\ now' = now
            /\ IF YearRangeDefined(year[1])
               THEN /\ after' = year_to_unix_range(year[1])[1]
                    /\ before' = year_to_unix_range(year[1])[2]
                    /\ pc' = "fetch_page"
               ELSE /\ pc' = "aborted"
                    /\ UNCHANGED <<after, before>>
       ELSE /\ now' = t
            /\ after' = Last7Range(t)[1]
            /\ before' = Last7Range(t)[2]
            /\ pc' = "fetch_page"
    /\ all_activities' = <<>>
    /\ page' = 1
    /\ raised' = IF pc' = "aborted" THEN "ValueError" ELSE raised
    /\ UNCHANGED <<at_start, runs, args_year, year, source, access_token, df_clean,
                   files, db, pending, posts, requests, written, sql>>

\* a loop that leaves on the first page that is not full
LeavesLoopOnShortPage(activities) == Len(activities) < per_page

\* the loop leaves on an empty page
LeavesLoop(activities) == activities = <<>>

\* an accumulator that is assigned the page instead of extended by it
ExtendByAssignment(acc, activities) == activities

\* all_activities.extend(activities)
Extend(acc, activities) == acc \o activities

\* one pass of the loop: request the page, raise, break or accumulate
FetchPage(status) ==
    /\ pc = "fetch_page"
    /\ source.kind = "endless" => page <= MaxPages
    /\ LET activities == ServerPage(source, page, per_page)
           answer == IF RaisesForStatus(status) THEN <<>> ELSE activities
       IN  /\ requests' = Append(requests,
                  [after |-> after, before |-> before, page |-> page,
                   per_page |-> per_page, status |-> status,
                   count |-> Len(answer)])
           /\ IF RaisesForStatus(status)
              THEN pc' = "aborted" /\ UNCHANGED <<all_activities, page>>
              ELSE IF LeavesLoop(activities)
                   THEN pc' = "select_columns"
                        /\ UNCHANGED <<all_activities, page>>
                   ELSE /\ all_activities' = Extend(all_activities, activities)
                        /\ page' = page + 1
                        /\ pc' = "fetch_page"
    /\ raised' = IF pc' = "aborted" THEN "requests.HTTPError" ELSE raised
    /\ UNCHANGED <<at_start, runs, args_year, year, now, source, access_token, after,
                   before, df_clean, files, db, pending, posts, steps,
                   written, sql>>

\* df_clean = select_columns(pd.DataFrame(all_activities))
SelectColumns ==
    /\ pc = "select_columns"
    /\ steps' = Append(steps, "select_columns")
    /\ df_clean' = select_columns(DataFrame(all_activities))
    /\ pc' = "to_csv"
    /\ UNCHANGED <<raised, at_start, runs, args_year, year, now, source, access_token, after,
                   before, page, all_activities, files, db, pending, posts,
                   requests, written, sql>>

\* after either branch main() goes on to setup_duckdb(), whatever was fetched
AfterCsv(df) == "setup_duckdb"

\* df_clean.to_csv(name, index=False): the file is created or overwritten
ToCsv ==
    /\ pc = "to_csv"
    /\ steps' = Append(steps, "to_csv")
    /\ files' = (CsvName(args_year) :> to_csv(df_clean)) @@ files
    /\ written' = Append(written, CsvName(args_year))
    /\ pc' = AfterCsv(df_clean)
    /\ UNCHANGED <<raised, at_start, runs, args_year, year, now, source, access_token, after,
                   before, page, all_activities, df_clean, db, pending, posts,
                   requests, sql>>

\* setup_duckdb(): connect and four statements, any of which may raise
SetupDuckdb(failing) ==
    /\ pc = "setup_duckdb"
    /\ steps' = Append(steps, "setup_duckdb")
    /\ db' = SetupWarehouse(db, SetupDone(failing))
    /\ sql' = sql \o SubSeq(SetupStatements, 1, SetupSent(failing))
    /\ pc' = IF SetupFails(failing) THEN "aborted" ELSE "upsert_duckdb_activities"
    /\ raised' = IF SetupFails(failing) THEN "duckdb.Error" ELSE raised
    /\ UNCHANGED <<at_start, runs, args_year, year, now, source, access_token, after,
                   before, page, all_activities, df_clean, files, pending,
                   posts, requests, written>>

\* upsert_duckdb_activities() up to the loop: connect (which may raise),
\* start the glob
UpsertStart(connects) ==
    /\ pc = "upsert_duckdb_activities"
    /\ steps' = Append(steps, "upsert_duckdb_activities")
    /\ IF connects
       THEN pending' = Glob(files) /\ pc' = "upsert_loop" /\ raised' = raised
       ELSE pending' = pending /\ pc' = "aborted" /\ raised' = "duckdb.Error"
    /\ UNCHANGED <<at_start, runs, args_year, year, now, source, access_token, after,
                   before, page, all_activities, df_clean, files, db, posts,
                   requests, written, sql>>

\* one pass of the loop: stage the file the glob yields, merge, drop
UpsertFile(f) ==
    /\ pc = "upsert_loop"
    /\ f \in pending
    /\ LET staging == read_csv_auto(files[f])
       IN  IF db.table /\ MergeSucceeds(db.rows, staging)
           THEN /\ db' = [db EXCEPT !.rows = MergeInto(db.rows, staging)]
                /\ sql' = sql \o <<"create temp table activities_staging",
                                   "merge into activities_raw",
                                   "drop table activities_staging">>
                /\ pending' = pending \ {f}
                /\ pc' = "upsert_loop"
           ELSE /\ sql' = sql \o <<"create temp table activities_staging",
                                   "merge into activities_raw">>
                /\ pc' = "aborted"
                /\ UNCHANGED <<db, pending>>
    /\ raised' = IF pc' = "aborted" THEN "duckdb.Error" ELSE raised
    /\ UNCHANGED <<at_start, runs, args_year, year, now, source, access_token, after,
                   before, page, all_activities, df_clean, files, posts,
                   requests, steps, written>>

\* the glob is exhausted: conn.close(), main() returns
UpsertDone ==
    /\ pc = "upsert_loop"
    /\ pending = {}
    /\ pc' = "done"
    /\ UNCHANGED <<raised, at_start, runs, args_year, year, now, source, access_token, after,
                   before, page, all_activities, df_clean, files, db, pending,
                   posts, requests, steps, written, sql>>

Next ==
    \/ \E a \in YearArgs, src \in Sources : ParseArgs(a, src)
    \/ \E status \in TokenStatuses : GetAccessToken(status)
    \/ \E t \in Clock : FetchStart(t)
    \/ \E status \in PageStatuses : FetchPage(status)
    \/ SelectColumns
    \/ ToCsv
    \/ \E failing \in SetupOutcomes : SetupDuckdb(failing)
    \/ \E connects \in BOOLEAN : UpsertStart(connects)
    \/ \E f \in Glob(files) : UpsertFile(f)
    \/ UpsertDone

Spec == Init /\ [][Next]_vars

\* ------------------------------------------ the pagination loop on its own

\* fetch_activities is entered with a token, against long and endless
\* listings that answer every request with 200.
FetchInit ==
    /\ pc = "fetch_activities"
    /\ runs = 1
    /\ args_year \in {None, Some(2025)}
    /\ year = FetchYear(args_year)
    /\ now = 0
    /\ source \in BulkSources
    /\ access_token = Some("access_token")
    /\ after = 0 /\ before = 0
    /\ page = 0
    /\ all_activities = <<>>
    /\ df_clean = [columns |-> <<>>, rows |-> <<>>]
    /\ files = NoFiles
    /\ db = FreshWarehouse
    /\ pending = {}
    /\ posts = <<HTTP_STATUS_OK>>
    /\ requests = <<>>
    /\ steps = <<"get_access_token">>
    /\ written = <<>>
    /\ sql = <<>>
    /\ at_start = [files |-> files, db |-> db]
    /\ raised = ""

FetchNext ==
    \/ \E t \in Clock : FetchStart(t)
    \/ FetchPage(HTTP_STATUS_OK)

\* The loop is sequential code and every request is bounded by its timeout,
\* so a pass that can be taken is taken.
FetchSpec == FetchInit /\ [][FetchNext]_vars /\ WF_vars(FetchNext)

Returned == pc = "select_columns"
Total == Len(source.records)
CeilDiv(a, b) == (a + b - 1) \div b

\* C1 as stated: ceil(T/200)+1 page requests when T is a multiple of 200,
\* ceil(T/200) otherwise.
C1_RequestCountAsStated ==
    (Returned /\ source.kind = "finite") =>
        Len(requests) = IF Total % per_page = 0
                        THEN CeilDiv(Total, per_page) + 1
                        ELSE CeilDiv(Total, per_page)

\* C1 amended: for every total T the fetch issues ceil(T/200)+1 page
\* requests, the last of them answered by the empty page.
C1_RequestCount ==
    (Returned /\ source.kind = "finite") =>
        Len(requests) = CeilDiv(Total, per_page) + 1

\* a total that is no multiple of 200 and spans more than one page
C1_Witness ==
    /\ Returned
    /\ source.kind = "finite"
    /\ Total = per_page + 50
    /\ Len(requests) = 3

RECURSIVE PagesServed(_, _)
PagesServed(src, n) ==
    IF n = 0 THEN <<>>
    ELSE PagesServed(src, n - 1) \o ServerPage(src, n, per_page)

EmptyPageSeen == \E i \in 1..Len(requests) : requests[i].count = 0

\* C8: the loop returns only after an empty page, which is the last page it
\* requested, and then holds every page before it; it stops as soon as a
\* page is empty; it never returns from an endless source; and against a
\* finite listing it does return.
C8_TerminatesIffEmptyPage ==
    /\ [](Returned =>
            /\ requests # <<>>
            /\ requests[Len(requests)].count = 0
            /\ \A i \in 1..(Len(requests) - 1) : requests[i].count > 0
            /\ all_activities = PagesServed(source, Len(requests) - 1))
    /\ [](EmptyPageSeen => Returned)
    /\ [](source.kind = "endless" => ~Returned)
    /\ [](source.kind = "finite" => <>Returned)

\* a listing of two full pages and a short one was fetched whole
C8_Witness ==
    /\ Returned
    /\ Total = 2 * per_page + 1
    /\ all_activities = source.records
    /\ Len(requests) = 4

\* ------------------------------------------------------- the upsert loader

\* the loader has just merged file f: the glob moved past it
Merged(f) ==
    /\ pc = "upsert_loop" /\ pc' = "upsert_loop"
    /\ f \in pending
    /\ pending' = pending \ {f}

\* the rows of a CSV file, each value under the name of its header column
CsvRows(content) ==
    {[c \in Range(content.header) |-> content.lines[i][IndexOf(content.header, c)]] :
        i \in 1..Len(content.lines)}

\* a set of rows with their API-only fields dropped
Retained(recs) ==
    {[c \in Range(TableColumns) |-> recs[i][c]] : i \in 1..Len(recs)}

\* C2: a merge of one CSV file sets every column of each matching row of
\* activities_raw to the values of the CSV row, inserts the CSV rows whose
\* id is new, and leaves the rows whose id is not in the CSV as they were.
C2_MergeSemantics ==
    [][\A f \in Glob(files) : Merged(f) =>
          LET csv == CsvRows(files[f])
          IN  /\ \A r \in db.rows : \A s \in csv :
                    s.id = r.id => (s \in db'.rows /\ (r # s => r \notin db'.rows))
              /\ \A s \in csv : s.id \notin Ids(db.rows) => s \in db'.rows
              /\ \A r \in db.rows : r.id \notin Ids(csv) => r \in db'.rows
              /\ db'.rows \subseteq (db.rows \cup csv)]_vars

\* one merge updated id 1 from "Old" to "New", inserted id 3 and left id 2
C2_Witness ==
    /\ runs = 1
    /\ pc = "upsert_loop"
    /\ pending = {}
    /\ at_start.files = ("export.csv" :> CsvOf(<<A1old, A2>>))
    /\ all_activities = <<A1new, A3>>
    /\ db.rows = Retained(<<A1new, A2, A3>>)

\* C3: merging a CSV file a second time leaves activities_raw exactly as
\* the first merge left it, for every table state the pipeline reaches and
\* every CSV file of the directory.
C3_UpsertIdempotent ==
    \A f \in Glob(files) :
        LET staging == read_csv_auto(files[f])
            once == MergeInto(db.rows, staging)
        IN  /\ MergeInto(once, staging) = once
            /\ MergeSucceeds(db.rows, staging) => MergeSucceeds(once, staging)

\* a file that updates one row and inserts another is merged into a table
\* that holds a third, and can be merged again
C3_Witness ==
    /\ pc = "upsert_loop"
    /\ db.rows = Retained(<<A1old, A2>>)
    /\ \E f \in pending :
          /\ CsvRows(files[f]) = Retained(<<A1new, A3>>)
          /\ MergeSucceeds(db.rows, read_csv_auto(files[f]))
          /\ MergeInto(db.rows, read_csv_auto(files[f])) = Retained(<<A1new, A2, A3>>)

UniqueIds == \A r1, r2 \in db.rows : r1.id = r2.id => r1 = r2

\* C4: through every run of setup_duckdb and of the loader activities_raw
\* holds at most one row per id, and no id it holds ever leaves it.
C4_UniqueIdsNeverShrink ==
    /\ []UniqueIds
    /\ [][Ids(db.rows) \subseteq Ids(db'.rows)]_vars

\* a second run overwrote a row of the first and the table kept its ids
C4_Witness ==
    /\ runs = 2
    /\ pc = "done"
    /\ Ids(at_start.db.rows) = {1, 2}
    /\ Ids(db.rows) = {1, 2, 3}
    /\ db.rows # at_start.db.rows \cup Retained(<<A3>>)

\* ------------------------------------------------------------ error paths

NothingDone ==
    /\ requests = <<>>
    /\ written = <<>>
    /\ sql = <<>>
    /\ files = at_start.files
    /\ db = at_start.db

\* C5: a token response other than 200 ends the run there: the POST is not
\* repeated, no page is requested, no CSV file is written and no SQL
\* statement is executed.
C5_TokenFailureAborts ==
    (posts # <<>> /\ posts[Len(posts)] # HTTP_STATUS_OK) =>
        /\ pc = "aborted"
        /\ Len(posts) = 1
        /\ steps = <<"get_access_token">>
        /\ access_token = None
        /\ NothingDone

\* a second run was refused a token beside a directory and a table that the
\* first run filled
C5_Witness ==
    /\ runs = 2
    /\ posts = <<401>>
    /\ pc = "aborted"
    /\ db.rows # {}
    /\ Glob(files) # {}

IsHttpError(status) == 400 <= status /\ status < 600

\* C6: an HTTP error on a page is the last request of the run: the run is
\* aborted, the records of the pages before it reach no CSV file, and
\* neither setup_duckdb nor the loader is entered.
C6_PageErrorAborts ==
    \A i \in 1..Len(requests) :
        IsHttpError(requests[i].status) =>
            /\ i = Len(requests)
            /\ pc = "aborted"
            /\ steps = <<"get_access_token", "fetch_activities">>
            /\ written = <<>>
            /\ sql = <<>>
            /\ files = at_start.files
            /\ db = at_start.db

\* page 2 failed after page 1 had delivered two records
C6_Witness ==
    /\ Len(requests) = 2
    /\ requests[1].count = 2
    /\ IsHttpError(requests[2].status)
    /\ all_activities = <<A1new, A3>>
    /\ pc = "aborted"

\* -------------------------------------------------------- the year flag

\* C7 as stated: with any integer given to --year every page request
\* carries the window of that calendar year and the file written is
\* activities_<year>.csv; the trailing 7 days and
\* activities_last_7_days.csv are used exactly when no flag is given.
C7_YearFlagAsStated ==
    /\ \A i \in 1..Len(requests) :
          IF args_year # None
          THEN /\ YearRangeDefined(args_year[1])
               /\ requests[i].after = year_to_unix_range(args_year[1])[1]
               /\ requests[i].before = year_to_unix_range(args_year[1])[2]
          ELSE /\ requests[i].after = Last7Range(now)[1]
               /\ requests[i].before = Last7Range(now)[2]
    /\ \A i \in 1..Len(written) :
          written[i] = IF args_year # None
                       THEN YearFileName(args_year[1])
                       ELSE Last7FileName

\* ------------------------------------------------------ the order of steps

MainOrder ==
    <<"get_access_token", "fetch_activities", "select_columns", "to_csv",
      "setup_duckdb", "upsert_duckdb_activities">>

AllRequestsOk ==
    \A i \in 1..Len(requests) : ~IsHttpError(requests[i].status)

\* C9 as stated: a run whose token exchange and page requests all succeeded
\* has gone through the six steps, in order, also when it fetched nothing.
\* Read in the claim's favour: a run that a failing database call ends is
\* not held against it.
C9_StepOrderAsStated ==
    (Ended /\ posts = <<HTTP_STATUS_OK>> /\ AllRequestsOk
           /\ raised # "duckdb.Error") =>
        steps = MainOrder

\* ------------------------------------------------- what a run leaves behind

\* C10 as stated: after a run that completes, every activity fetched in it
\* is in activities_raw with the values fetched, whatever other CSV files
\* the directory holds and in whatever order the glob yields them.
C10_FetchedRowsLoaded ==
    pc = "done" => Retained(all_activities) \subseteq db.rows
====
